---- MODULE Spec2Model ----
(***************************************************************************)
(* Model of the real-time video detection client:                          *)
(*   - predictVideoSSE (the streaming request, its line decoder, its       *)
(*     dispatch loop and its catch handler),                               *)
(*   - the VideoRealtimeDemo component (state, handleFile,                 *)
(*     startProcessing, stopProcessing, handleVideoTimeUpdate and the      *)
(*     onEvent / onError closures handed to predictVideoSSE),              *)
(*   - the effects of the component that run after a render (distraction  *)
(*     cue, danger-alert latch) and the play / pause events of its video,  *)
(*   - the tab switch of App, which unmounts and remounts the component.   *)
(* Text is a sequence of one-character strings; a JSON object body is one  *)
(* token between braces.                                                   *)
(***************************************************************************)
EXTENDS Integers, Sequences, FiniteSets, TLC

VARIABLES
    selectedIdx,  \* App: the tab shown (0 image, 1 realtime video)
    mountGen,     \* how many times VideoRealtimeDemo has been mounted
    comp,         \* state and refs of the mounted VideoRealtimeDemo
    sess,         \* predictVideoSSE calls: promise chain, signal, closure
    nextSid,      \* the next call of predictVideoSSE
    nLines,       \* lines written by the server so far
    sentLines,    \* per call: the lines the server wrote, in order
    received,     \* per call: the characters reader.read() has returned
    midLine,      \* per call: some chunk ended inside a line
    onEventLog,   \* per call: the values handed to onEvent, in order
    onErrorLog,   \* per call: how often onError was invoked
    abortLog,     \* per call: the phase the chain was in at each abort()
    now,          \* Date.now(), milliseconds
    lastCall      \* the component handler that returned in the last step, with
                  \* its argument, for the specifications that watch handlers

net == <<sentLines, received, midLine>>

vars == <<selectedIdx, mountGen, comp, sess, nextSid, nLines, net,
          onEventLog, onErrorLog, abortLog, now, lastCall>>

\* ------------------------------------------------------------------ bounds
\* predictVideoSSE calls in one run of the application
MaxSessions == 2
\* lines the server writes in one run of the application, all responses together
MaxLines == 2
\* clicks on a tab button that change the tab
MaxTabSwitches == 3
\* lines the server writes into the one response of SpecApi
MaxApiLines == 3
\* abort() calls a caller of predictVideoSSE makes on one handle (SpecApi)
MaxAborts == 2
\* entries of a Timeline drawn for the playback scan (SpecSeek)
MaxTimeline == 3
\* the largest playback position and event time, seconds (SpecSeek)
MaxSeekTime == 2
\* steps of the wall clock in one run (SpecPlay)
MaxTicks == 3
\* options that differ from their initial value at one time (SpecConfig)
MaxOptionChanges == 1

\* ------------------------------------------------------ program constants
\* the debounce of the distraction cue, milliseconds
DebounceMs == 500
\* the alert value of a danger frame
AttackDetected == "ATTACK_DETECTED"

\* ------------------------------------------------------------- JS values
NULL == "null"
\* a numeric field that is absent (undefined) or null in the JSON document
Undef == 0 - 1
\* Number.NaN, the result of 0 / 0
NaN == 0 - 2

NL == "\n"
Sids == 1 .. MaxSessions

\* ---------------------------------------------------------------- text
\* The literal "data: "
DataPrefix == <<"d", "a", "t", "a", ":", " ">>

\* String.prototype.startsWith
StartsWith(line, p) ==
    /\ Len(line) >= Len(p)
    /\ SubSeq(line, 1, Len(p)) = p

\* String.prototype.slice(n)
Slice(line, n) == SubSeq(line, n + 1, Len(line))

\* index of the first newline of s, 0 when there is none
FirstNL(s) ==
    IF \E i \in 1 .. Len(s) : s[i] = NL
    THEN CHOOSE i \in 1 .. Len(s) : s[i] = NL /\ \A j \in 1 .. (i - 1) : s[j] # NL
    ELSE 0

RECURSIVE Split(_)
\* String.prototype.split("\n"): always at least one element
Split(s) ==
    IF FirstNL(s) = 0
    THEN <<s>>
    ELSE <<SubSeq(s, 1, FirstNL(s) - 1)>> \o Split(SubSeq(s, FirstNL(s) + 1, Len(s)))

\* (mutant) the unfinished line stays among the lines to process
PopRestKeepsLast(lines) == lines

\* Array.prototype.pop: the array without its last element
PopRest(lines) == SubSeq(lines, 1, Len(lines) - 1)
\* (mutant) the unfinished line is dropped
PopLastDropped(lines) == <<>>

\* lines.pop() || ""
PopLast(lines) == lines[Len(lines)]

\* -------------------------------------------------------- stream messages
\* The StreamEvent object a JSON body token stands for.
\* Fields the document does not carry are undefined: alert,
\* distraction_detected and detect_count are absent unless set.
StreamEvent(type, total_frames, fps, frame_idx, time_s, message) ==
    [type |-> type, total_frames |-> total_frames, fps |-> fps,
     frame_idx |-> frame_idx, time_s |-> time_s, message |-> message,
     alert |-> NULL, distraction_detected |-> FALSE, detect_count |-> Undef]

Bodies == {"M", "E0", "E1", "S", "D", "X"}

\* metadata without frames, a second summary and an event without a time
\* (SpecStore); a danger frame and a distraction frame (SpecPlay)
MoreBodies == {"M0", "S2", "EN", "EA", "ED"}

Payload(b) ==
    CASE b = "M"  -> StreamEvent("metadata", 2, 25, Undef, Undef, NULL)
      [] b = "E0" -> StreamEvent("event", Undef, Undef, 0, 0, NULL)
      [] b = "E1" -> StreamEvent("event", Undef, Undef, 1, 1, NULL)
      [] b = "S"  -> StreamEvent("summary", 2, 25, Undef, Undef, NULL)
      [] b = "D"  -> StreamEvent("done", Undef, Undef, Undef, Undef, NULL)
      [] b = "X"  -> StreamEvent("error", Undef, Undef, Undef, Undef, "server")
      [] b = "M0" -> StreamEvent("metadata", 0, 25, Undef, Undef, NULL)
      [] b = "S2" -> [StreamEvent("summary", 2, 25, Undef, Undef, NULL)
                        EXCEPT !.detect_count = 1]
      [] b = "EN" -> StreamEvent("event", Undef, Undef, 2, Undef, NULL)
      [] b = "EA" -> [StreamEvent("event", Undef, Undef, 0, 0, NULL)
                        EXCEPT !.alert = AttackDetected]
      [] b = "ED" -> [StreamEvent("event", Undef, Undef, 1, 1, NULL)
                        EXCEPT !.distraction_detected = TRUE]

\* the value of the JSON literal null
JsonNull == StreamEvent(NULL, Undef, Undef, Undef, Undef, NULL)

\* JSON.parse: [ok, val]; ok = FALSE is a thrown SyntaxError
JSONParse(str) ==
    IF Len(str) = 3 /\ str[1] = "{" /\ str[3] = "}"
       /\ str[2] \in Bodies \cup MoreBodies
    THEN [ok |-> TRUE, val |-> Payload(str[2])]
    ELSE IF str = <<"n", "u", "l", "l">>
    THEN [ok |-> TRUE, val |-> JsonNull]
    ELSE [ok |-> FALSE, val |-> JsonNull]

\* ----------------------------------------------- VideoRealtimeDemo options
\* The useState initial values of the option states; a number is written
\* as the text String() gives for it.
DefaultOptions ==
    [runTaskA |-> TRUE, taskAName |-> "ResNet50", runTaskB |-> TRUE,
     taskBName |-> "custom_cabin_attack", stage1Stride |-> "16",
     stage2Stride |-> "4", taskASuspiciousProbThr |-> "0.7",
     taskADistractionRatio |-> "0.6", distractionCooldown |-> "3",
     yoloConf |-> "0.5", suspiciousWindow |-> "5",
     suspiciousThreshRatio |-> "0.8", taskBSuspiciousRatio |-> "0.8",
     taskBDetectedRatio |-> "0.5", attackCooldown |-> "2"]

\* another value the control of each option can be set to
OtherOptions ==
    [runTaskA |-> FALSE, taskAName |-> "ResNet18", runTaskB |-> FALSE,
     taskBName |-> "other_task", stage1Stride |-> "8",
     stage2Stride |-> "2", taskASuspiciousProbThr |-> "0.9",
     taskADistractionRatio |-> "0.9", distractionCooldown |-> "1",
     yoloConf |-> "0.9", suspiciousWindow |-> "9",
     suspiciousThreshRatio |-> "0.9", taskBSuspiciousRatio |-> "0.9",
     taskBDetectedRatio |-> "0.9", attackCooldown |-> "1"]

\* the object literal startProcessing hands to predictVideoSSE
ConfigOf(o) ==
    [run_taskA |-> o.runTaskA, model_name_A |-> o.taskAName,
     run_taskB |-> o.runTaskB, taskB_name |-> o.taskBName,
     stage1_stride |-> o.stage1Stride, stage2_stride |-> o.stage2Stride,
     taskA_suspicious_prob_thr |-> o.taskASuspiciousProbThr,
     taskA_distraction_ratio |-> o.taskADistractionRatio,
     distraction_cooldown_seconds |-> o.distractionCooldown,
     yolo_conf |-> o.yoloConf, suspicious_window |-> o.suspiciousWindow,
     suspicious_thresh_ratio |-> o.suspiciousThreshRatio,
     taskB_suspicious_ratio |-> o.taskBSuspiciousRatio,
     taskB_detected_ratio |-> o.taskBDetectedRatio,
     attack_cooldown_seconds |-> o.attackCooldown]

\* the options whose value is a boolean
BooleanKeys == {"run_taskA", "run_taskB"}

\* the text URLSearchParams.append stores for option k: String(v)
ParamText(config, k) ==
    IF k \in BooleanKeys
    THEN (IF config[k] THEN "true" ELSE "false")
    ELSE config[k]

\* the options predictVideoSSE takes out of its argument
DestructuredKeys == {"run_taskA", "model_name_A", "run_taskB", "taskB_name"}

\* the URLSearchParams of the streaming request
QueryParams(config) == [k \in DestructuredKeys |-> ParamText(config, k)]

\* ------------------------------------------------- VideoRealtimeDemo state
\* the useState / useRef initial values of a freshly mounted component
InitComp ==
    [file |-> NULL, previewUrl |-> <<>>, processing |-> FALSE, error |-> NULL,
     metadata |-> <<>>, events |-> <<>>, summary |-> <<>>,
     currentEventIdx |-> 0 - 1, progress |-> 0, abortControllerRef |-> 0,
     playing |-> FALSE, alertShown |-> FALSE, lastDistractionTime |-> 0,
     cues |-> <<>>, options |-> DefaultOptions]

Files == {"a.mp4", "c.png"}

\* File.type
FileType(f) == IF f = "a.mp4" THEN <<"video/", "mp4">> ELSE <<"image/", "png">>

\* x || 0 for a numeric field
OrZero(x) == IF x = Undef THEN 0 ELSE x

\* Math.min(f / T * 100, 100) in IEEE arithmetic: 0/0 is NaN and Math.min
\* keeps it, f/0 for f > 0 is Infinity and Math.min caps it
ProgressPct(f, T) ==
    IF T = 0
    THEN (IF f = 0 THEN NaN ELSE 100)
    ELSE (IF (f * 100) \div T < 100 THEN (f * 100) \div T ELSE 100)

\* events[i] with the 0-based index of the source
At(events, i) == events[i + 1]

\* (mutant) the new event is put in front
SpreadPrepend(prev, item) == <<item>> \o prev

\* [...prev, event]
SpreadAppend(prev, item) == Append(prev, item)

\* (mutant) the error callback also clears the stream data
OnErrorCbResets(c, msg) ==
    [c EXCEPT !.error = msg, !.processing = FALSE, !.events = <<>>,
              !.metadata = <<>>, !.summary = <<>>, !.currentEventIdx = 0 - 1,
              !.progress = 0]

\* the error callback handed to predictVideoSSE
OnErrorCb(c, msg) == [c EXCEPT !.error = msg, !.processing = FALSE]

\* The dispatch callback handed to predictVideoSSE by session s, whose closure
\* holds the metadata of the render startProcessing was created in (capMeta).
\* [threw, c]: threw = TRUE is the TypeError of reading .type of null.
OnEventCb(c, s, capMeta, event) ==
    IF event = JsonNull
    THEN [threw |-> TRUE, c |-> c]
    ELSE [threw |-> FALSE, c |->
      CASE event.type = "metadata" ->
             [c EXCEPT !.metadata = <<[total_frames |-> OrZero(event.total_frames),
                                       fps |-> OrZero(event.fps)]>>]
        [] event.type = "event" ->
             [c EXCEPT !.events = SpreadAppend(@, [sid |-> s, ev |-> event]),
                       !.progress = IF capMeta # <<>>
                                    THEN ProgressPct(OrZero(event.frame_idx),
                                                     capMeta[1].total_frames)
                                    ELSE @]
        [] event.type = "summary" ->
             [c EXCEPT !.summary = <<[sid |-> s, ev |-> event]>>,
                       !.processing = FALSE]
        [] event.type = "done" ->
             [c EXCEPT !.processing = FALSE]
        [] event.type = "error" ->
             [c EXCEPT !.error = IF event.message = NULL THEN "default"
                                 ELSE event.message,
                       !.processing = FALSE]
        [] OTHER -> c]

\* ------------------------------------------------- VideoRealtimeDemo effects
\* events[currentEventIdx] of a render, when it is not undefined
HasCurrent(c) == c.currentEventIdx >= 0 /\ c.currentEventIdx < Len(c.events)

\* (mutant) no debounce
DebounceOverAlways(t, last) == TRUE

\* now - lastDistractionTime.current > 500
DebounceOver(t, last) == t - last > DebounceMs

\* The distraction effect, run after the render of c that follows the
\* render of old when one of its dependencies changed; t is Date.now().
\* The cue plays inside the debounce branch; cues keeps the time of each.
DistractionEffect(old, c, t) ==
    IF <<c.events, c.currentEventIdx, c.playing>>
         = <<old.events, old.currentEventIdx, old.playing>>
    THEN c
    ELSE IF ~c.playing \/ c.currentEventIdx < 0
    THEN c
    ELSE IF /\ HasCurrent(c)
            /\ At(c.events, c.currentEventIdx).ev.distraction_detected
            /\ DebounceOver(t, c.lastDistractionTime)
    THEN [c EXCEPT !.lastDistractionTime = t, !.cues = Append(@, t)]
    ELSE c

\* (mutant) the latch is cleared whenever the summary changes
SummaryEffectClearsAlways(old, c) == c.summary # old.summary

\* the effect on [summary] calls setAlertShown(false)
SummaryEffectClears(old, c) == c.summary # old.summary /\ c.summary = <<>>

\* (mutant) the latch is set without looking at playing
AlertEffectSetsPaused(old, c) ==
    /\ <<c.events, c.currentEventIdx, c.playing, c.alertShown>>
         # <<old.events, old.currentEventIdx, old.playing, old.alertShown>>
    /\ c.currentEventIdx >= 0
    /\ HasCurrent(c)
    /\ At(c.events, c.currentEventIdx).ev.alert = AttackDetected
    /\ ~c.alertShown

\* the effect on [events, currentEventIdx, playing, alertShown] calls
\* setAlertShown(true)
AlertEffectSets(old, c) ==
    /\ <<c.events, c.currentEventIdx, c.playing, c.alertShown>>
         # <<old.events, old.currentEventIdx, old.playing, old.alertShown>>
    /\ c.playing /\ c.currentEventIdx >= 0
    /\ HasCurrent(c)
    /\ At(c.events, c.currentEventIdx).ev.alert = AttackDetected
    /\ ~c.alertShown

\* the effects of one commit, in the order of their declaration; the state
\* updates they queue are applied together, the last one winning
EffectsPass(old, c, t) ==
    [DistractionEffect(old, c, t) EXCEPT
       !.alertShown = IF AlertEffectSets(old, c) THEN TRUE
                      ELSE IF SummaryEffectClears(old, c) THEN FALSE
                      ELSE @]

RECURSIVE Render(_, _, _)
\* The component renders c after old and runs its effects; an effect that
\* changed the state causes another render. A dependency array is compared
\* by identity: a new array with the same entries is only ever the empty
\* one of a reset, which leaves currentEventIdx at -1, where both effects
\* on events return at once.
Render(old, c, t) ==
    LET c1 == EffectsPass(old, c, t)
    IN IF c1.alertShown = c.alertShown THEN c1 ELSE Render(c, c1, t)

\* ------------------------------------------------------- predictVideoSSE
NoSession ==
    [phase |-> "idle", badStatus |-> FALSE, aborted |-> FALSE, owner |-> 0,
     wire |-> <<>>, buffer |-> <<>>, capMeta |-> <<>>, nEvents |-> 0,
     gotDone |-> FALSE, params |-> <<>>]

\* the call itself: the request is issued, with the query parameters made
\* of options, and the handle returned
PredictVideoSSE(owner, capMeta, options) ==
    [phase |-> "pending", badStatus |-> FALSE, aborted |-> FALSE, owner |-> owner,
     wire |-> <<>>, buffer |-> <<>>, capMeta |-> capMeta, nEvents |-> 0,
     gotDone |-> FALSE, params |-> <<QueryParams(options)>>]

\* the chain has settled: the body stream, the line buffer and the closures
\* of the call are released
Settle(rec, phase) ==
    [rec EXCEPT !.phase = phase, !.wire = <<>>, !.buffer = <<>>, !.capMeta = <<>>,
                !.owner = 0]

\* a promise of the chain is still unsettled
Live(ss, s) == ss[s].phase \in {"pending", "errbody", "reading"}

\* (mutant) the .catch handler forwards every rejection
CatchForwardsAll(errName) == TRUE

\* the .catch handler forwards everything but an AbortError
CatchCallsOnError(errName) == errName # "AbortError"

CatchHandler(c, errName, msg) ==
    IF CatchCallsOnError(errName) THEN OnErrorCb(c, msg) ELSE c

RECURSIVE ProcessLinesStopAtError(_, _, _, _)
\* (mutant) the try block around the whole loop: the first line that fails to
\* parse ends the processing of the chunk
ProcessLinesStopAtError(lines, s, capMeta, acc) ==
    IF lines = <<>>
    THEN acc
    ELSE LET line == Head(lines)
             parsed == JSONParse(Slice(line, 6))
         IN IF ~StartsWith(line, DataPrefix)
            THEN ProcessLinesStopAtError(Tail(lines), s, capMeta, acc)
            ELSE IF ~parsed.ok
            THEN acc
            ELSE ProcessLinesStopAtError(Tail(lines), s, capMeta,
                   [c |-> OnEventCb(acc.c, s, capMeta, parsed.val).c,
                    log |-> Append(acc.log, parsed.val)])

RECURSIVE ProcessLinesStopAtThrow(_, _, _, _)
\* (mutant) the callback is called outside the try block: its exception
\* ends the processing of the chunk
ProcessLinesStopAtThrow(lines, s, capMeta, acc) ==
    IF lines = <<>>
    THEN acc
    ELSE LET line == Head(lines)
             parsed == JSONParse(Slice(line, 6))
         IN IF ~(StartsWith(line, DataPrefix) /\ parsed.ok)
            THEN ProcessLinesStopAtThrow(Tail(lines), s, capMeta, acc)
            ELSE IF OnEventCb(acc.c, s, capMeta, parsed.val).threw
            THEN [c |-> acc.c, log |-> Append(acc.log, parsed.val)]
            ELSE ProcessLinesStopAtThrow(Tail(lines), s, capMeta,
                   [c |-> OnEventCb(acc.c, s, capMeta, parsed.val).c,
                    log |-> Append(acc.log, parsed.val)])

RECURSIVE ProcessLines(_, _, _, _)
\* the for loop over the complete lines of one chunk; acc = [c, log]
ProcessLines(lines, s, capMeta, acc) ==
    IF lines = <<>>
    THEN acc
    ELSE LET line == Head(lines)
             parsed == JSONParse(Slice(line, 6))
             next ==
               IF StartsWith(line, DataPrefix) /\ parsed.ok
               THEN [c |-> OnEventCb(acc.c, s, capMeta, parsed.val).c,
                     log |-> Append(acc.log, parsed.val)]
               ELSE acc
         IN ProcessLines(Tail(lines), s, capMeta, next)

\* one turn of the read loop on a chunk: [c, log, buffer]
ReadChunk(c, s, capMeta, buffer, chunk) ==
    LET lines == Split(buffer \o chunk)
        done == ProcessLines(PopRest(lines), s, capMeta, [c |-> c, log |-> <<>>])
    IN [c |-> done.c, log |-> done.log, buffer |-> PopLast(lines)]

\* (mutant) abort() settles the chain again whatever state it is in
AbortSessionAlways(ss, s) ==
    [ss EXCEPT ![s] = [Settle(@, "aborted") EXCEPT !.aborted = TRUE]]

\* AbortController.abort() on the handle of session s: the signal is set and
\* a still unsettled promise of the chain rejects with an AbortError
AbortSession(ss, s) ==
    [ss EXCEPT ![s] = IF Live(ss, s)
                      THEN [Settle(@, "aborted") EXCEPT !.aborted = TRUE]
                      ELSE [@ EXCEPT !.aborted = TRUE]]

\* the state setters of session s's closures reach a component that is
\* still mounted; React drops the updates of an unmounted one
Mounted(s) == selectedIdx = 1 /\ sess[s].owner = mountGen

Commit(s, c) == IF Mounted(s) THEN Render(comp, c, now) ELSE comp

\* the chain of session s settles with a rejection that is no abort
Reject(s, errName, msg) ==
    /\ sess' = [sess EXCEPT ![s] = Settle(@, "failed")]
    /\ comp' = Commit(s, CatchHandler(comp, errName, msg))
    /\ onErrorLog' = [onErrorLog EXCEPT
                        ![s] = IF CatchCallsOnError(errName) THEN @ + 1 ELSE @]
    /\ lastCall' = <<>>
    /\ UNCHANGED <<now, selectedIdx, mountGen, nextSid, nLines, net, onEventLog, abortLog>>

\* ---------------------------------------------------------------- network
\* fetch rejects: no connection
FetchFails(s) ==
    /\ sess[s].phase = "pending"
    /\ Reject(s, "TypeError", "network")

\* (mutant) the status of the response is not looked at
ResponseIgnoresStatus(s, ok, hasBody) ==
    /\ sess[s].phase = "pending"
    /\ IF ~hasBody
       THEN Reject(s, "Error", "bodynull")
       ELSE /\ sess' = [sess EXCEPT ![s].phase = "reading", ![s].badStatus = ~ok]
            /\ lastCall' = <<>>
            /\ UNCHANGED <<now, selectedIdx, mountGen, comp, nextSid, nLines, net,
                           onEventLog, onErrorLog, abortLog>>

\* the response head arrives
Response(s, ok, hasBody) ==
    /\ sess[s].phase = "pending"
    /\ IF ~ok
       THEN /\ sess' = [sess EXCEPT ![s].phase = "errbody", ![s].badStatus = TRUE]
            /\ lastCall' = <<>>
            /\ UNCHANGED <<now, selectedIdx, mountGen, comp, nextSid, nLines, net, onEventLog,
                           onErrorLog, abortLog>>
       ELSE IF ~hasBody
       THEN Reject(s, "Error", "bodynull")
       ELSE /\ sess' = [sess EXCEPT ![s].phase = "reading"]
            /\ lastCall' = <<>>
            /\ UNCHANGED <<now, selectedIdx, mountGen, comp, nextSid, nLines, net, onEventLog,
                           onErrorLog, abortLog>>

\* res.text() of a non-success response settles; either way the chain throws
ErrorBody(s, textOk) ==
    /\ sess[s].phase = "errbody"
    /\ IF textOk THEN Reject(s, "Error", "http")
                 ELSE Reject(s, "TypeError", "network")

\* the event lines a server writes
EventLines == { DataPrefix \o <<"{", b, "}">> : b \in Bodies }

\* a truncated JSON document, the JSON literal null, a comment line, a blank line
OtherLines ==
    { DataPrefix \o <<"{", "E0">>,
      DataPrefix \o <<"n", "u", "l", "l">>,
      <<":">>,
      <<>> }

\* the sizes of the next chunk: the line cut in two, or all that is in flight
ChunkSizes(s) ==
    {Len(DataPrefix) \div 2, Len(sess[s].wire)} \cap (1 .. Len(sess[s].wire))

\* the playback positions (seconds) a timeupdate reports
Times == {0, 1}

\* reader.read() resolves with the first k characters still in flight
ReadResolves(s, k) ==
    /\ sess[s].phase = "reading"
    /\ k \in 1 .. Len(sess[s].wire)
    /\ LET r == ReadChunk(comp, s, sess[s].capMeta, sess[s].buffer,
                          SubSeq(sess[s].wire, 1, k))
       IN /\ comp' = Commit(s, r.c)
          /\ sess' = [sess EXCEPT
                        ![s].buffer = r.buffer,
                        ![s].wire = Slice(@, k),
                        ![s].nEvents = @ + Len(r.log),
                        ![s].gotDone = @ \/ \E i \in DOMAIN r.log : r.log[i].type = "done"]
    /\ lastCall' = <<>>
    /\ UNCHANGED <<now, selectedIdx, mountGen, nextSid, nLines, onErrorLog, abortLog>>

Chunk(s, k) ==
    /\ ReadResolves(s, k)
    /\ UNCHANGED <<net, onEventLog>>

\* reader.read() resolves with done: the loop breaks and the chain fulfils
ReadDone(s) ==
    /\ sess[s].phase = "reading"
    /\ sess[s].wire = <<>>
    /\ sess' = [sess EXCEPT ![s] = Settle(@, "ended")]
    /\ lastCall' = <<>>
    /\ UNCHANGED <<now, selectedIdx, mountGen, comp, nextSid, nLines, net, onEventLog,
                   onErrorLog, abortLog>>

\* reader.read() rejects: the connection breaks in the middle of the body
ReadFails(s) ==
    /\ sess[s].phase = "reading"
    /\ Reject(s, "TypeError", "network")

\* the server writes one more line; the client has read all earlier ones
ServerSend(s, line, term) ==
    /\ sess[s].phase = "reading"
    /\ nLines < MaxLines
    /\ sess[s].wire = <<>>
    /\ sess' = [sess EXCEPT ![s].wire = line \o (IF term THEN <<NL>> ELSE <<>>)]
    /\ nLines' = nLines + 1
    /\ lastCall' = <<>>
    /\ UNCHANGED <<now, selectedIdx, mountGen, comp, nextSid, net, onEventLog,
                   onErrorLog, abortLog>>

\* ------------------------------------------------------------------- App
\* the tab changes made so far: every mount but the current one was unmounted
TabSwitches == IF selectedIdx = 1 THEN 2 * mountGen - 1 ELSE 2 * mountGen

\* a tab button: the other tab's component replaces the current one
SelectTab(idx) ==
    /\ idx # selectedIdx
    /\ TabSwitches < MaxTabSwitches
    /\ selectedIdx' = idx
    /\ mountGen' = IF idx = 1 THEN mountGen + 1 ELSE mountGen
    /\ comp' = InitComp
    /\ lastCall' = <<>>
    /\ UNCHANGED <<now, sess, nextSid, nLines, net, onEventLog, onErrorLog, abortLog>>

\* ------------------------------------------------- VideoRealtimeDemo handlers
\* (mutant) the reset leaves the danger-alert latch alone
ResetStreamKeepsLatch(c) ==
    [c EXCEPT !.events = <<>>, !.metadata = <<>>, !.summary = <<>>,
              !.currentEventIdx = 0 - 1, !.progress = 0]

\* (mutant) the reset leaves the current index alone
ResetStreamKeepsIndex(c) ==
    [c EXCEPT !.events = <<>>, !.metadata = <<>>, !.summary = <<>>,
              !.progress = 0, !.alertShown = FALSE]

\* (mutant) the file is taken over before its type is looked at
HandleFileStateTakesFile(c, f) ==
    IF ~StartsWith(FileType(f), <<"video/">>)
    THEN [c EXCEPT !.error = "validation", !.file = f, !.previewUrl = <<"blob:", f>>]
    ELSE [c EXCEPT !.events = <<>>, !.metadata = <<>>, !.summary = <<>>,
                   !.currentEventIdx = 0 - 1, !.progress = 0, !.alertShown = FALSE,
                   !.error = NULL, !.file = f, !.previewUrl = <<"blob:", f>>]

\* the six setters shared by handleFile and startProcessing
ResetStream(c) ==
    [c EXCEPT !.events = <<>>, !.metadata = <<>>, !.summary = <<>>,
              !.currentEventIdx = 0 - 1, !.progress = 0, !.alertShown = FALSE]

HandleFileState(c, f) ==
    IF ~StartsWith(FileType(f), <<"video/">>)
    THEN [c EXCEPT !.error = "validation"]
    ELSE [ResetStream(c) EXCEPT !.error = NULL, !.file = f,
                                !.previewUrl = <<"blob:", f>>]

\* the file input changes; its button is disabled while processing
HandleFileStep(f) ==
    /\ selectedIdx = 1
    /\ ~comp.processing
    /\ comp' = Render(comp, HandleFileState(comp, f), now)
    /\ UNCHANGED <<now, selectedIdx, mountGen, sess, nextSid, nLines, net, onEventLog,
                   onErrorLog, abortLog>>

HandleFile(f) ==
    /\ HandleFileStep(f)
    /\ lastCall' = <<>>

\* handleFile under watch
WatchedHandleFile(f) ==
    /\ HandleFileStep(f)
    /\ lastCall' = <<"handleFile", f>>

\* (mutant) the previous handle is left alone
CancelPreviousSkipped(ss, ref) == ss

\* "Cancel previous if exists"
CancelPrevious(ss, ref) == IF ref # 0 THEN AbortSession(ss, ref) ELSE ss

\* the start button, shown for a selected file while not processing
StartProcessingStep ==
    /\ selectedIdx = 1
    /\ ~comp.processing
    /\ comp.file # NULL
    /\ nextSid <= MaxSessions
    /\ LET old == comp.abortControllerRef
           s == nextSid
           cancelled == CancelPrevious(sess, old)
           c1 == [ResetStream(comp) EXCEPT !.processing = TRUE, !.error = NULL,
                                           !.abortControllerRef = s]
           rejected == old # 0 /\ cancelled[old].phase # sess[old].phase
       IN /\ sess' = [cancelled EXCEPT ![s] = PredictVideoSSE(mountGen, comp.metadata,
                                                       ConfigOf(comp.options))]
          /\ comp' = Render(comp, IF rejected
                                  THEN CatchHandler(c1, "AbortError", "aborted")
                                  ELSE c1, now)
          /\ onErrorLog' = IF rejected /\ CatchCallsOnError("AbortError")
                           THEN [onErrorLog EXCEPT ![old] = @ + 1] ELSE onErrorLog
          /\ abortLog' = IF old # 0
                         THEN [abortLog EXCEPT ![old] = Append(@, sess[old].phase)]
                         ELSE abortLog
    /\ nextSid' = nextSid + 1
    /\ UNCHANGED <<now, selectedIdx, mountGen, nLines, net, onEventLog>>

StartProcessing ==
    /\ StartProcessingStep
    /\ lastCall' = <<>>

\* startProcessing under watch
WatchedStartProcessing ==
    /\ StartProcessingStep
    /\ lastCall' = <<"startProcessing">>

\* (mutant) the stop also empties the Timeline
StopStateClearsEvents(c) ==
    [c EXCEPT !.abortControllerRef = 0, !.processing = FALSE, !.events = <<>>,
              !.currentEventIdx = 0 - 1]

\* abortControllerRef.current = null; setProcessing(false)
StopState(c) == [c EXCEPT !.abortControllerRef = 0, !.processing = FALSE]

\* the stop button, shown for a selected file while processing
StopProcessingStep ==
    /\ selectedIdx = 1
    /\ comp.processing
    /\ comp.file # NULL
    /\ LET old == comp.abortControllerRef
           cancelled == CancelPrevious(sess, old)
           c1 == StopState(comp)
           rejected == old # 0 /\ cancelled[old].phase # sess[old].phase
       IN /\ sess' = cancelled
          /\ comp' = Render(comp, IF rejected
                                  THEN CatchHandler(c1, "AbortError", "aborted")
                                  ELSE c1, now)
          /\ onErrorLog' = IF rejected /\ CatchCallsOnError("AbortError")
                           THEN [onErrorLog EXCEPT ![old] = @ + 1] ELSE onErrorLog
          /\ abortLog' = IF old # 0
                         THEN [abortLog EXCEPT ![old] = Append(@, sess[old].phase)]
                         ELSE abortLog
    /\ UNCHANGED <<now, selectedIdx, mountGen, nextSid, nLines, net, onEventLog>>

StopProcessing ==
    /\ StopProcessingStep
    /\ lastCall' = <<>>

\* stopProcessing under watch
WatchedStopProcessing ==
    /\ StopProcessingStep
    /\ lastCall' = <<"stopProcessing">>

\* (mutant) the scan does not look whether time_s is there
FoundIdxAnyTime(events, currentTime) ==
    LET ok == { i \in 0 .. (Len(events) - 1) :
                  currentTime >= At(events, i).ev.time_s }
    IN IF ok = {} THEN 0 - 1 ELSE CHOOSE i \in ok : \A j \in ok : j <= i

\* (mutant) the scan starts one entry too far and reports that position
FoundIdxPastEnd(events, currentTime) ==
    LET ok == { i \in 0 .. (Len(events) - 1) :
                  /\ At(events, i).ev.time_s # Undef
                  /\ currentTime >= At(events, i).ev.time_s }
    IN IF ok = {} THEN 0 - 1 ELSE (CHOOSE i \in ok : \A j \in ok : j <= i) + 1

\* (mutant) a forward scan: the first entry that qualifies
FoundIdxForward(events, currentTime) ==
    LET ok == { i \in 0 .. (Len(events) - 1) :
                  /\ At(events, i).ev.time_s # Undef
                  /\ currentTime >= At(events, i).ev.time_s }
    IN IF ok = {} THEN 0 - 1 ELSE CHOOSE i \in ok : \A j \in ok : j >= i

\* the backward scan of handleVideoTimeUpdate: the largest 0-based index
\* whose time_s is a number <= currentTime, -1 when there is none
FoundIdx(events, currentTime) ==
    LET ok == { i \in 0 .. (Len(events) - 1) :
                  /\ At(events, i).ev.time_s # Undef
                  /\ currentTime >= At(events, i).ev.time_s }
    IN IF ok = {} THEN 0 - 1 ELSE CHOOSE i \in ok : \A j \in ok : j <= i

\* (mutant) the callback also writes progress
HandleVideoTimeUpdateStateWritesProgress(c, currentTime) ==
    IF Len(c.events) = 0
    THEN c
    ELSE IF FoundIdx(c.events, currentTime) >= 0
            /\ FoundIdx(c.events, currentTime) # c.currentEventIdx
    THEN [c EXCEPT !.currentEventIdx = FoundIdx(c.events, currentTime),
                   !.progress = 100]
    ELSE c

HandleVideoTimeUpdateState(c, currentTime) ==
    IF Len(c.events) = 0
    THEN c
    ELSE IF FoundIdx(c.events, currentTime) >= 0
            /\ FoundIdx(c.events, currentTime) # c.currentEventIdx
    THEN [c EXCEPT !.currentEventIdx = FoundIdx(c.events, currentTime)]
    ELSE c

\* timeupdate of the video element (playback tick or seek)
HandleVideoTimeUpdateStep(currentTime) ==
    /\ selectedIdx = 1
    /\ comp.previewUrl # <<>>
    /\ comp' = Render(comp, HandleVideoTimeUpdateState(comp, currentTime), now)
    /\ UNCHANGED <<now, selectedIdx, mountGen, sess, nextSid, nLines, net, onEventLog,
                   onErrorLog, abortLog>>

HandleVideoTimeUpdate(currentTime) ==
    /\ HandleVideoTimeUpdateStep(currentTime)
    /\ lastCall' = <<>>

\* handleVideoTimeUpdate under watch: the position it read is recorded
WatchedTimeUpdate(currentTime) ==
    /\ HandleVideoTimeUpdateStep(currentTime)
    /\ lastCall' = <<"handleVideoTimeUpdate", currentTime>>

\* onPlay / onPause of the video element: playback starts (the user, or the
\* play() call of the metadata message) or stops
OnPlayPause(playing) ==
    /\ selectedIdx = 1
    /\ comp.previewUrl # <<>>
    /\ comp' = Render(comp, [comp EXCEPT !.playing = playing], now)
    /\ lastCall' = <<>>
    /\ UNCHANGED <<now, selectedIdx, mountGen, sess, nextSid, nLines, net, onEventLog,
                   onErrorLog, abortLog>>

\* the control of option k changes; the controls are disabled while
\* processing
SetOption(k) ==
    /\ selectedIdx = 1
    /\ ~comp.processing
    /\ LET o == [comp.options EXCEPT ![k] = IF @ = DefaultOptions[k]
                                            THEN OtherOptions[k]
                                            ELSE DefaultOptions[k]]
       IN /\ Cardinality({ j \in DOMAIN o : o[j] # DefaultOptions[j] })
               <= MaxOptionChanges
          /\ comp' = Render(comp, [comp EXCEPT !.options = o], now)
    /\ lastCall' = <<>>
    /\ UNCHANGED <<now, selectedIdx, mountGen, sess, nextSid, nLines, net, onEventLog,
                   onErrorLog, abortLog>>

\* the step of the wall clock
TickMs == DebounceMs \div 2

\* Date.now() of a page that has been open for a while
ClockStart == 2 * DebounceMs

\* wall-clock time passes
Tick ==
    /\ now < ClockStart + MaxTicks * TickMs
    /\ now' = now + TickMs
    /\ lastCall' = <<>>
    /\ UNCHANGED <<selectedIdx, mountGen, comp, sess, nextSid, nLines, net,
                   onEventLog, onErrorLog, abortLog>>

\* ------------------------------------------------------------ the application
Init ==
    /\ selectedIdx = 0
    /\ mountGen = 0
    /\ comp = InitComp
    /\ sess = [s \in Sids |-> NoSession]
    /\ nextSid = 1
    /\ nLines = 0
    /\ sentLines = [s \in Sids |-> <<>>]
    /\ received = [s \in Sids |-> <<>>]
    /\ midLine = [s \in Sids |-> FALSE]
    /\ onEventLog = [s \in Sids |-> <<>>]
    /\ onErrorLog = [s \in Sids |-> 0]
    /\ abortLog = [s \in Sids |-> <<>>]
    /\ now = ClockStart
    /\ lastCall = <<>>

Next ==
    \/ \E idx \in {0, 1} : SelectTab(idx)
    \/ \E f \in Files : HandleFile(f)
    \/ StartProcessing
    \/ StopProcessing
    \/ \E t \in Times : HandleVideoTimeUpdate(t)
    \/ \E s \in Sids : FetchFails(s)
    \/ \E s \in Sids, ok \in BOOLEAN, hasBody \in BOOLEAN : Response(s, ok, hasBody)
    \/ \E s \in Sids, textOk \in BOOLEAN : ErrorBody(s, textOk)
    \/ \E s \in Sids, line \in EventLines : ServerSend(s, line, TRUE)
    \/ \E s \in Sids : \E k \in ChunkSizes(s) : Chunk(s, k)
    \/ \E s \in Sids : ReadDone(s)
    \/ \E s \in Sids : ReadFails(s)

Spec == Init /\ [][Next]_vars

\* ------------------------------------------- predictVideoSSE under a harness
\* One call of predictVideoSSE with the component's callbacks, made by a
\* caller that may use the returned handle at any time and any number of
\* times, against a server free to write any lines, cut into any chunks.
ApiLines ==
    { DataPrefix \o <<"{", "E0", "}">>, DataPrefix \o <<"{", "E1", "}">> } \cup OtherLines

\* what the server may write without a newline behind it
ApiFragments == { DataPrefix \o <<"{", "E1", "}">> }

InitApi ==
    /\ selectedIdx = 1
    /\ mountGen = 1
    /\ comp = HandleFileState(InitComp, "a.mp4")
    /\ sess = [s \in Sids |-> NoSession]
    /\ nextSid = 1
    /\ nLines = 0
    /\ sentLines = [s \in Sids |-> <<>>]
    /\ received = [s \in Sids |-> <<>>]
    /\ midLine = [s \in Sids |-> FALSE]
    /\ onEventLog = [s \in Sids |-> <<>>]
    /\ onErrorLog = [s \in Sids |-> 0]
    /\ abortLog = [s \in Sids |-> <<>>]
    /\ now = ClockStart
    /\ lastCall = <<>>

ApiCall ==
    /\ nextSid = 1
    /\ sess' = [sess EXCEPT ![nextSid] = PredictVideoSSE(mountGen, comp.metadata,
                                                       ConfigOf(comp.options))]
    /\ nextSid' = nextSid + 1
    /\ lastCall' = <<>>
    /\ UNCHANGED <<now, selectedIdx, mountGen, comp, nLines, net, onEventLog,
                   onErrorLog, abortLog>>

\* handle.abort()
ApiAbort(s) ==
    /\ sess[s].phase # "idle"
    /\ Len(abortLog[s]) < MaxAborts
    /\ LET cancelled == AbortSession(sess, s)
           rejected == cancelled[s].phase # sess[s].phase
       IN /\ sess' = cancelled
          /\ comp' = Render(comp, IF rejected
                                  THEN CatchHandler(comp, "AbortError", "aborted")
                                  ELSE comp, now)
          /\ onErrorLog' = IF rejected /\ CatchCallsOnError("AbortError")
                           THEN [onErrorLog EXCEPT ![s] = @ + 1] ELSE onErrorLog
    /\ abortLog' = [abortLog EXCEPT ![s] = Append(@, sess[s].phase)]
    /\ lastCall' = <<>>
    /\ UNCHANGED <<now, selectedIdx, mountGen, nextSid, nLines, net, onEventLog>>

\* the server writes a line, with or without its newline, behind what is
\* still in flight
ApiServerSend(s, line, term) ==
    /\ sess[s].phase = "reading"
    /\ Len(sentLines[s]) < MaxApiLines
    /\ sess' = [sess EXCEPT ![s].wire = @ \o line \o (IF term THEN <<NL>> ELSE <<>>)]
    /\ sentLines' = [sentLines EXCEPT ![s] = Append(@, [line |-> line, term |-> term])]
    /\ lastCall' = <<>>
    /\ UNCHANGED <<now, selectedIdx, mountGen, comp, nextSid, nLines, received,
                   midLine, onEventLog, onErrorLog, abortLog>>

\* reader.read() resolves with a chunk of any size
ApiChunk(s, k) ==
    /\ ReadResolves(s, k)
    /\ received' = [received EXCEPT ![s] = @ \o SubSeq(sess[s].wire, 1, k)]
    /\ onEventLog' = [onEventLog EXCEPT ![s] =
           @ \o ReadChunk(comp, s, sess[s].capMeta, sess[s].buffer,
                          SubSeq(sess[s].wire, 1, k)).log]
    /\ midLine' = [midLine EXCEPT ![s] = @ \/ sess'[s].buffer # <<>>]
    /\ UNCHANGED sentLines

NextApi ==
    \/ ApiCall
    \/ \E s \in Sids : ApiAbort(s)
    \/ \E s \in Sids : FetchFails(s)
    \/ \E s \in Sids, ok \in BOOLEAN, hasBody \in BOOLEAN : Response(s, ok, hasBody)
    \/ \E s \in Sids, textOk \in BOOLEAN : ErrorBody(s, textOk)
    \/ \E s \in Sids, line \in ApiLines : ApiServerSend(s, line, TRUE)
    \/ \E s \in Sids, line \in ApiFragments : ApiServerSend(s, line, FALSE)
    \/ \E s \in Sids : \E k \in 1 .. Len(sess[s].wire) : ApiChunk(s, k)
    \/ \E s \in Sids : ReadDone(s)
    \/ \E s \in Sids : ReadFails(s)

SpecApi == InitApi /\ [][NextApi]_vars

\* ----------------------------------------------- the store of one component
\* The component stays mounted with a file selected, the transport works,
\* every line arrives in a chunk of its own, and the server is free to send
\* any message in any order: metadata with or without frames, events, two
\* different summaries.
StoreLines ==
    { DataPrefix \o <<"{", b, "}">> : b \in {"M", "M0", "E0", "E1", "EN", "S", "S2"} }

\* a freshly mounted component after a video file was picked
InitMounted ==
    /\ selectedIdx = 1
    /\ mountGen = 1
    /\ comp = HandleFileState(InitComp, "a.mp4")
    /\ sess = [s \in Sids |-> NoSession]
    /\ nextSid = 1
    /\ nLines = 0
    /\ sentLines = [s \in Sids |-> <<>>]
    /\ received = [s \in Sids |-> <<>>]
    /\ midLine = [s \in Sids |-> FALSE]
    /\ onEventLog = [s \in Sids |-> <<>>]
    /\ onErrorLog = [s \in Sids |-> 0]
    /\ abortLog = [s \in Sids |-> <<>>]
    /\ now = ClockStart
    /\ lastCall = <<>>

NextStore ==
    \/ \E f \in Files : WatchedHandleFile(f)
    \/ WatchedStartProcessing
    \/ StopProcessing
    \/ \E t \in Times : WatchedTimeUpdate(t)
    \/ \E s \in Sids : Response(s, TRUE, TRUE)
    \/ \E s \in Sids, line \in StoreLines : ServerSend(s, line, TRUE)
    \/ \E s \in Sids : Chunk(s, Len(sess[s].wire))
    \/ \E s \in Sids : ReadDone(s)

SpecStore == InitMounted /\ [][NextStore]_vars

\* ------------------------------------------------------- the playback scan
\* handleVideoTimeUpdate on any Timeline a finished session can have left:
\* up to MaxTimeline events in any order of their times, with or without a
\* time_s, and a video element reporting any position.
SeekTimes == 0 .. MaxSeekTime

\* an event message with time_s = t
SeekEvent(t) == [Payload("E0") EXCEPT !.time_s = t]

Timelines ==
    UNION { [1 .. n -> { [sid |-> 1, ev |-> SeekEvent(t)] : t \in SeekTimes \cup {Undef} }]
            : n \in 0 .. MaxTimeline }

\* session 1 streamed the events of tl and a done message, and ended
InitSeek ==
    \E tl \in Timelines :
        /\ selectedIdx = 1
        /\ mountGen = 1
        /\ comp = [HandleFileState(InitComp, "a.mp4") EXCEPT
                     !.events = tl, !.abortControllerRef = 1]
        /\ sess = [s \in Sids |->
                     IF s = 1
                     THEN [Settle(PredictVideoSSE(1, <<>>, ConfigOf(DefaultOptions)), "ended") EXCEPT
                             !.nEvents = Len(tl) + 1, !.gotDone = TRUE]
                     ELSE NoSession]
        /\ nextSid = 2
        /\ nLines = Len(tl) + 1
        /\ sentLines = [s \in Sids |-> <<>>]
        /\ received = [s \in Sids |-> <<>>]
        /\ midLine = [s \in Sids |-> FALSE]
        /\ onEventLog = [s \in Sids |-> <<>>]
        /\ onErrorLog = [s \in Sids |-> 0]
        /\ abortLog = [s \in Sids |-> <<>>]
        /\ now = ClockStart
        /\ lastCall = <<>>

NextSeek ==
    \/ \E t \in SeekTimes : WatchedTimeUpdate(t)
    \/ \E playing \in BOOLEAN : OnPlayPause(playing)

SpecSeek == InitSeek /\ [][NextSeek]_vars

\* ------------------------------------------------ playback of one component
\* The component stays mounted with a file selected and the transport works;
\* the server streams danger frames, distraction frames and the summary,
\* the video plays, pauses and reports positions, and the wall clock runs.
PlayLines ==
    { DataPrefix \o <<"{", b, "}">> : b \in {"EA", "ED", "S"} }

NextPlay ==
    \/ \E f \in Files : WatchedHandleFile(f)
    \/ WatchedStartProcessing
    \/ WatchedStopProcessing
    \/ \E t \in Times : WatchedTimeUpdate(t)
    \/ \E playing \in BOOLEAN : OnPlayPause(playing)
    \/ Tick
    \/ \E s \in Sids : Response(s, TRUE, TRUE)
    \/ \E s \in Sids, line \in PlayLines : ServerSend(s, line, TRUE)
    \/ \E s \in Sids : Chunk(s, Len(sess[s].wire))
    \/ \E s \in Sids : ReadDone(s)

SpecPlay == InitMounted /\ [][NextPlay]_vars

\* ------------------------------------------------- the request of a session
\* The component stays mounted with a file selected; the user changes
\* options, starts and stops.
NextConfig ==
    \/ \E k \in DOMAIN DefaultOptions : SetOption(k)
    \/ WatchedStartProcessing
    \/ StopProcessing

SpecConfig == InitMounted /\ [][NextConfig]_vars

\* ================================================================= claims

\* C1: the Timeline holds only events of the newest session: no event of a
\* session cancelled before the reset of a newer one is in it.
C1_TimelineOfNewestSession ==
    \A i \in DOMAIN comp.events : comp.events[i].sid = nextSid - 1

\* an older session dispatched, was cancelled while reading, and the newer
\* session has appended to the Timeline
C1_Witness ==
    \E s \in Sids :
        /\ s < nextSid - 1
        /\ abortLog[s] = <<"reading">>
        /\ sess[s].nEvents > 0
        /\ comp.events # <<>>

\* C2 (as claimed): at most one session is live, whatever the sequence of
\* start, stop, file selection and tab switch.
C2_AtMostOneLive == Cardinality({ s \in Sids : Live(sess, s) }) <= 1

\* C3: once the handle of a session is aborted, nothing more is dispatched to
\* onEvent and onError is not invoked for it, in the aborting step or later.
C3_NoCallbackAfterAbort ==
    [][\A s \in Sids :
          sess'[s].aborted =>
              /\ sess'[s].nEvents = sess[s].nEvents
              /\ onErrorLog'[s] = onErrorLog[s]]_vars

\* one session aborted while awaiting a chunk after it had dispatched, another
\* aborted before its stream began
C3_Witness ==
    \E s1, s2 \in Sids :
        /\ abortLog[s1] = <<"reading">>
        /\ sess[s1].nEvents > 0
        /\ abortLog[s2] \in {<<"pending">>, <<"errbody">>}
        /\ onErrorLog[s1] = 0
        /\ onErrorLog[s2] = 0

\* C4: an abort() on a handle whose chain has settled (an earlier abort, or
\* the natural end) changes nothing: no dispatch, no error callback, the
\* outcome of the session and the component state stay as they are.
C4_AbortIdempotent ==
    [][\A s \in Sids :
          (abortLog'[s] # abortLog[s] /\ ~Live(sess, s)) =>
              /\ sess'[s].phase = sess[s].phase
              /\ comp' = comp
              /\ onErrorLog' = onErrorLog
              /\ onEventLog' = onEventLog]_vars

\* the handle was aborted after the stream had ended, and then once more
C4_Witness ==
    \E s \in Sids :
        /\ abortLog[s] = <<"ended", "ended">>
        /\ onEventLog[s] # <<>>
        /\ onErrorLog[s] = 0

\* C5 (as claimed): processing is true only while a session of the mounted
\* component is live; every terminal outcome has cleared it.
C5_ProcessingCleared ==
    comp.processing => \E s \in Sids : Live(sess, s) /\ Mounted(s)

\* C6 (as claimed): a body that ends without a done message has made the
\* controller invoke the error callback.
C6_AbruptEndSignalled ==
    \A s \in Sids :
        (sess[s].phase = "ended" /\ ~sess[s].gotDone) => onErrorLog[s] > 0

\* C7: whatever the chunks, what has been dispatched so far is what the
\* characters received so far give when they arrive as one chunk.
C7_ChunkIndependent ==
    \A s \in Sids :
        onEventLog[s] = ReadChunk(InitComp, s, <<>>, <<>>, received[s]).log

\* a line was cut by a chunk boundary, and two messages have been dispatched
C7_Witness ==
    \E s \in Sids :
        /\ midLine[s]
        /\ Len(onEventLog[s]) >= 2
        /\ sess[s].wire = <<>>
        /\ sess[s].buffer = <<>>

\* the line whose JSON document is cut short
CorruptLine == DataPrefix \o <<"{", "E0">>

IsEventLine(sl) == sl.line \in EventLines

\* the messages of the event lines among the lines sent, in order
EventsOf(sl) ==
    [i \in DOMAIN SelectSeq(sl, IsEventLine) |->
        Payload(SelectSeq(sl, IsEventLine)[i].line[Len(DataPrefix) + 2])]

RECURSIVE SentLength(_)
SentLength(sl) ==
    IF sl = <<>> THEN 0
    ELSE Len(Head(sl).line) + (IF Head(sl).term THEN 1 ELSE 0) + SentLength(Tail(sl))

\* C8: when the lines written are complete event lines but for one corrupted
\* line, and all have been read, exactly the other lines have been
\* dispatched, in their order, and no error has been reported.
C8_MalformedLineSkipped ==
    \A s \in Sids :
        ( /\ sess[s].phase \in {"reading", "ended"}
          /\ sentLines[s] # <<>>
          /\ Len(received[s]) = SentLength(sentLines[s])
          /\ \A i \in DOMAIN sentLines[s] :
                /\ sentLines[s][i].term
                /\ sentLines[s][i].line \in EventLines \cup {CorruptLine}
          /\ Cardinality({ i \in DOMAIN sentLines[s] :
                             sentLines[s][i].line = CorruptLine }) = 1 )
        => /\ onEventLog[s] = EventsOf(sentLines[s])
           /\ onErrorLog[s] = 0
           /\ comp.error = NULL

\* a corrupted line between two event lines, all read, the stream still open
C8_Witness ==
    \E s \in Sids :
        /\ sess[s].phase = "reading"
        /\ Len(sentLines[s]) = 3
        /\ sentLines[s][2].line = CorruptLine
        /\ \A i \in {1, 3} : sentLines[s][i].line \in EventLines
        /\ \A i \in 1 .. 3 : sentLines[s][i].term
        /\ Len(received[s]) = SentLength(sentLines[s])
        /\ Len(onEventLog[s]) = 2

\* C9 (as claimed): once the error body of a non-success response is no
\* longer awaited, the error callback has been invoked and nothing dispatched.
C9_BadStatusCallsOnError ==
    \A s \in Sids :
        (sess[s].badStatus /\ sess[s].phase # "errbody") =>
            /\ onErrorLog[s] = 1
            /\ sess[s].nEvents = 0

\* C9 (amended): a response with a non-success status leads to no dispatch at
\* all, and the error callback is invoked once when the error body has been
\* read, unless the session is aborted before that.
C9_BadStatusNoDispatch ==
    \A s \in Sids :
        sess[s].badStatus =>
            /\ sess[s].nEvents = 0
            /\ sess[s].phase \in {"errbody", "failed", "aborted"}
            /\ sess[s].phase = "failed" => onErrorLog[s] = 1
            /\ sess[s].phase # "failed" => onErrorLog[s] = 0

C9_Witness ==
    \E s \in Sids :
        /\ sess[s].badStatus
        /\ sess[s].phase = "failed"
        /\ onErrorLog[s] = 1
        /\ comp.abortControllerRef = s
        /\ comp.error = "http"

\* C10: a failed read in the middle of the stream invokes the error callback
\* once, and the component changes in its error text and processing flag only.
C10_ErrorPathKeepsResults ==
    [][\A s \in Sids :
          (sess[s].phase = "reading" /\ sess'[s].phase = "failed") =>
              /\ onErrorLog'[s] = onErrorLog[s] + 1
              /\ Mounted(s) =>
                    comp' = [comp EXCEPT !.error = "network", !.processing = FALSE]]_vars

\* the stream failed after an event was applied and selected by playback
C10_Witness ==
    \E s \in Sids :
        /\ sess[s].phase = "failed"
        /\ sess[s].nEvents > 0
        /\ comp.abortControllerRef = s
        /\ comp.events # <<>>
        /\ comp.currentEventIdx >= 0
        /\ comp.progress > 0
        /\ comp.error = "network"
        /\ ~comp.processing

\* a reset: startProcessing, or handleFile with a video file, returned
ResetReturned ==
    /\ lastCall # <<>>
    /\ \/ lastCall[1] = "startProcessing"
       \/ lastCall[1] = "handleFile" /\ StartsWith(FileType(lastCall[2]), <<"video/">>)

\* s is a prefix of t
IsPrefix(s, t) == Len(s) <= Len(t) /\ SubSeq(t, 1, Len(s)) = s

\* the message of the one line in flight to session s
InFlight(s) ==
    JSONParse(Slice(SubSeq(sess[s].wire, 1, Len(sess[s].wire) - 1), Len(DataPrefix))).val

\* C11: between two resets the Timeline only grows at its end: every step
\* that is not a reset leaves the old Timeline a prefix of the new one, and
\* the step that dispatches an event message of the stream puts exactly
\* that message at the end, so the Timeline is in the order of the stream.
C11_TimelineAppendOnly ==
    [][ /\ ~ResetReturned' => IsPrefix(comp.events, comp'.events)
        /\ \A s \in Sids :
              (/\ sess[s].phase = "reading"
               /\ sess'[s].nEvents = sess[s].nEvents + 1
               /\ InFlight(s).type = "event")
              => comp'.events = Append(comp.events, [sid |-> s, ev |-> InFlight(s)])
      ]_vars

\* two events of one session are in the Timeline, in the order E1, E0 in
\* which the server wrote them
C11_Witness ==
    /\ Len(comp.events) = 2
    /\ comp.events[1].sid = comp.events[2].sid
    /\ comp.events[1].ev = Payload("E1")
    /\ comp.events[2].ev = Payload("E0")

\* C12 (as claimed): the summary is recorded once per session: a step in
\* which a session that already has its summary stored dispatches another
\* summary leaves the stored one as it is.
C12_SummaryOnce ==
    [][ (/\ comp.summary # <<>>
         /\ comp'.summary # <<>>
         /\ comp'.summary[1].sid = comp.summary[1].sid
         /\ ~ResetReturned')
        => comp'.summary = comp.summary ]_vars

\* C13 (as claimed): a step that appends an event while the metadata of the
\* session is stored with total_frames = T > 0 leaves progress at
\* min(100, 100 * frame_idx / T) for the frame_idx of that event.
C13_ProgressOfSameSession ==
    [][ (/\ Len(comp'.events) = Len(comp.events) + 1
         /\ comp.metadata # <<>>
         /\ comp.metadata[1].total_frames > 0)
        => comp'.progress =
             ProgressPct(OrZero(comp'.events[Len(comp'.events)].ev.frame_idx),
                         comp.metadata[1].total_frames) ]_vars

\* C14 (as claimed): progress is always a number in [0, 100], never NaN.
C14_ProgressInRange ==
    comp.progress \in 0 .. 100

\* the 0-based indices of the entries with a time_s that is a number <= t
Qualifying(events, t) ==
    { i \in 0 .. (Len(events) - 1) :
        At(events, i).ev.time_s # Undef /\ At(events, i).ev.time_s <= t }

\* handleVideoTimeUpdate has just returned
TimeUpdateReturned ==
    lastCall # <<>> /\ lastCall[1] = "handleVideoTimeUpdate"

\* the time_s of the entries of the Timeline, in order
TimesOf(events) == [i \in DOMAIN events |-> events[i].ev.time_s]

\* C15: right after a playback-position change to t, when some entry has a
\* time_s that is not null and <= t, the current index is the largest
\* index of such an entry.
C15_LargestQualifyingIndex ==
    (TimeUpdateReturned /\ Qualifying(comp.events, lastCall[2]) # {})
    => /\ comp.currentEventIdx \in Qualifying(comp.events, lastCall[2])
       /\ \A j \in Qualifying(comp.events, lastCall[2]) : j <= comp.currentEventIdx

\* position 1 on a Timeline with the times 0, 1, null: entries 0 and 1
\* qualify, the last entry has no time
C15_Witness ==
    /\ TimeUpdateReturned
    /\ lastCall[2] = 1
    /\ Len(comp.events) = 3
    /\ TimesOf(comp.events) = <<0, 1, Undef>>
    /\ comp.currentEventIdx = 1

\* C16 (as claimed): right after a playback-position change to t for which
\* no entry qualifies, the current index is -1.
C16_NoneWhenNothingQualifies ==
    (TimeUpdateReturned /\ Qualifying(comp.events, lastCall[2]) = {})
    => comp.currentEventIdx = 0 - 1

\* the entry events[currentEventIdx] of component state c
Current(c) == At(c.events, c.currentEventIdx)

C18_LatchSetWhilePlayingAndKept ==
    [][ /\ (~comp.alertShown /\ comp'.alertShown)
            => /\ comp'.playing
               /\ HasCurrent(comp')
               /\ Current(comp').ev.alert = AttackDetected
        /\ (comp.alertShown /\ ~ResetReturned') => comp'.alertShown ]_vars

\* the latch is still set after another event arrived, the user moved to
\* that event, which is no danger frame, and paused
C18_Witness ==
    /\ comp.alertShown
    /\ ~comp.playing
    /\ HasCurrent(comp)
    /\ Current(comp).ev.alert # AttackDetected

\* C19: right after a reset (startProcessing, or handleFile with a video
\* file) the danger-alert latch is false.
C19_ResetClearsLatch ==
    ResetReturned => ~comp.alertShown

\* the second run, started after a first run that had streamed a frame,
\* has latched on a danger frame of its own
C19_Witness ==
    /\ comp.alertShown
    /\ HasCurrent(comp)
    /\ Current(comp).sid = 2
    /\ sess[1].nEvents > 0

\* C20: right after a reset (startProcessing, or handleFile with a video
\* file) the Timeline is empty, summary and metadata are cleared, the
\* current index is -1 and progress is 0, all in the same state; and in no
\* state at all does an empty Timeline come with a current index.
C20_ResetAtomic ==
    /\ ResetReturned
        => /\ comp.events = <<>>
           /\ comp.summary = <<>>
           /\ comp.metadata = <<>>
           /\ comp.currentEventIdx = 0 - 1
           /\ comp.progress = 0
    /\ comp.events = <<>> => comp.currentEventIdx = 0 - 1

\* startProcessing has just returned for the second run; the first run had
\* streamed two messages
C20_Witness ==
    /\ lastCall = <<"startProcessing">>
    /\ nextSid = 3
    /\ sess[1].nEvents = 2

\* C21: handleFile with a file that is no video sets the error message and
\* nothing else: file, preview, Timeline, metadata, summary, current index,
\* progress and every session are as before, and no request is issued.
C21_WrongTypeOnlySetsError ==
    [][ (lastCall' # <<>> /\ lastCall'[1] = "handleFile"
           /\ ~StartsWith(FileType(lastCall'[2]), <<"video/">>))
        => /\ comp' = [comp EXCEPT !.error = "validation"]
           /\ sess' = sess
           /\ nextSid' = nextSid ]_vars

\* an image was picked while a session was still streaming into a Timeline
\* that has an event
C21_Witness ==
    /\ lastCall = <<"handleFile", "c.png">>
    /\ comp.error = "validation"
    /\ comp.events # <<>>
    /\ \E s \in Sids : Live(sess, s)

\* session s is finalized (its summary is stored), failed or cancelled
Terminal(s) ==
    \/ comp.summary # <<>> /\ comp.summary[1].sid = s
    \/ sess[s].phase \in {"failed", "aborted"}

\* C22 (as claimed): once a session is finalized, failed or cancelled, no
\* later message of that session adds to the Timeline or replaces the
\* summary.
C22_TerminalIsFinal ==
    [][ \A s \in Sids :
          (Terminal(s) /\ ~ResetReturned')
          => /\ \A i \in DOMAIN comp'.events \ DOMAIN comp.events :
                   comp'.events[i].sid # s
             /\ (comp'.summary # comp.summary /\ comp'.summary # <<>>)
                   => comp'.summary[1].sid # s ]_vars

\* C23 (as claimed): when startProcessing has returned, the request of the
\* new session carries every option of the config as a query parameter,
\* with the text of its value.
C23_AllOptionsSent ==
    lastCall = <<"startProcessing">>
    => \A k \in DOMAIN ConfigOf(comp.options) :
          /\ k \in DOMAIN sess[nextSid - 1].params[1]
          /\ sess[nextSid - 1].params[1][k] = ParamText(ConfigOf(comp.options), k)

\* the newlines among the characters of text
NewlinesIn(text) == Cardinality({ i \in DOMAIN text : text[i] = NL })

\* C24: a line is dispatched only once its newline has been received: at
\* any time no more messages have been dispatched than newlines received,
\* so a fragment waits in the buffer and one that is never terminated is
\* never dispatched.
C24_NoDispatchBeforeNewline ==
    \A s \in Sids : Len(onEventLog[s]) <= NewlinesIn(received[s])

\* the stream closed behind a fragment that would parse as a message; all
\* of it was read and nothing was dispatched for it
C24_Witness ==
    \E s \in Sids :
        /\ sess[s].phase = "ended"
        /\ Len(sentLines[s]) = 2
        /\ sentLines[s][1].term
        /\ sentLines[s][1].line \in EventLines
        /\ ~sentLines[s][2].term
        /\ Len(received[s]) = SentLength(sentLines[s])
        /\ Len(onEventLog[s]) = 1

\* C25 (as claimed): the frame_idx of the Timeline entries of one session
\* never decreases from one entry to a later one.
C25_FrameIdxMonotone ==
    \A i, j \in DOMAIN comp.events :
        (i < j /\ comp.events[i].sid = comp.events[j].sid)
        => OrZero(comp.events[i].ev.frame_idx) <= OrZero(comp.events[j].ev.frame_idx)

\* C26: in every state, when there is a current index, the entry at that
\* index has a time_s that is not null.
C26_CurrentHasTime ==
    comp.currentEventIdx # 0 - 1
    => /\ HasCurrent(comp)
       /\ Current(comp).ev.time_s # Undef

\* the last entry of the Timeline has no time; the position is past the
\* time of the entry before it, which is the current one
C26_Witness ==
    /\ TimeUpdateReturned
    /\ Len(comp.events) = 2
    /\ comp.events[2].ev.time_s = Undef
    /\ comp.currentEventIdx = 0
    /\ lastCall[2] >= comp.events[1].ev.time_s

\* C27: a call of handleVideoTimeUpdate, at any position, changes nothing
\* of the component but the current index and nothing of any session.
C27_TimeUpdateReadOnly ==
    [][ (lastCall' # <<>> /\ lastCall'[1] = "handleVideoTimeUpdate")
        => /\ comp' = [comp EXCEPT !.currentEventIdx = comp'.currentEventIdx]
           /\ sess' = sess
           /\ nextSid' = nextSid ]_vars

\* the callback has selected an event while the session was streaming and
\* its metadata was stored
C27_Witness ==
    /\ TimeUpdateReturned
    /\ comp.currentEventIdx = 0
    /\ comp.metadata # <<>>
    /\ comp.processing

\* C28: in every state the current index is -1 or a position of the
\* Timeline.
C28_IndexInRange ==
    /\ comp.currentEventIdx >= 0 - 1
    /\ comp.currentEventIdx < Len(comp.events)

\* the last of two entries is the current one, in a component that was
\* mounted again after a tab switch
C28_Witness ==
    /\ Len(comp.events) = 2
    /\ comp.currentEventIdx = 1
    /\ mountGen = 2

\* C29: a call of stopProcessing aborts the session of the stored handle,
\* drops the handle and clears the processing flag; everything else of the
\* component (Timeline, metadata, summary, current index, progress, latch,
\* error) and every other session is as before.
C29_StopKeepsResults ==
    [][ lastCall' = <<"stopProcessing">>
        => /\ comp' = [comp EXCEPT !.abortControllerRef = 0, !.processing = FALSE]
           /\ comp.abortControllerRef # 0
                => /\ sess'[comp.abortControllerRef].aborted
                   /\ ~Live(sess', comp.abortControllerRef)
           /\ \A s \in Sids \ {comp.abortControllerRef} : sess'[s] = sess[s]
      ]_vars

\* the user stopped a streaming session after the latch was set: the
\* Timeline and the latch are still there
C29_Witness ==
    /\ lastCall = <<"stopProcessing">>
    /\ comp.events # <<>>
    /\ comp.alertShown
    /\ ~comp.processing
    /\ sess[nextSid - 1].phase = "aborted"

\* the line whose document is the JSON literal null: the dispatch callback
\* throws on it
NullLine == DataPrefix \o <<"n", "u", "l", "l">>

\* C30: when the lines written are complete event lines and lines on which
\* the dispatch callback throws, and all have been read, every event line
\* has been dispatched into the Timeline, in order, and the error callback
\* has not been called.
C30_CallbackThrowIsSkipped ==
    \A s \in Sids :
        ( /\ sess[s].phase \in {"reading", "ended"}
          /\ Len(received[s]) = SentLength(sentLines[s])
          /\ \A i \in DOMAIN sentLines[s] :
                /\ sentLines[s][i].term
                /\ sentLines[s][i].line \in EventLines \cup {NullLine}
          /\ \E i \in DOMAIN sentLines[s] : sentLines[s][i].line = NullLine )
        => /\ [i \in DOMAIN comp.events |-> comp.events[i].ev] = EventsOf(sentLines[s])
           /\ Len(onEventLog[s]) = Len(sentLines[s])
           /\ onErrorLog[s] = 0
           /\ comp.error = NULL

\* a null line first, then two event lines, all read, the stream still open
C30_Witness ==
    \E s \in Sids :
        /\ sess[s].phase = "reading"
        /\ Len(sentLines[s]) = 3
        /\ sentLines[s][1].line = NullLine
        /\ \A i \in {2, 3} : sentLines[s][i].line \in EventLines
        /\ \A i \in 1 .. 3 : sentLines[s][i].term
        /\ Len(received[s]) = SentLength(sentLines[s])
        /\ Len(comp.events) = 2

====
